---- MODULE Spec2Model ----
(***************************************************************************)
(* State-machine model of scraper.py: one run of main() (argument record,  *)
(* store discovery / selection, URL resolution, the per-target retry loop, *)
(* checkpointing, flushing and the final persistence step), the three      *)
(* persisted files, and a restart that begins a new run over the files the *)
(* previous run left behind.                                               *)
(***************************************************************************)
EXTENDS Integers, Sequences, FiniteSets, TLC

\* ------------------------------------------------------------------ bounds
\* largest value of --max-rate-limit-retries that is tried (smallest is -1)
MaxRetriesArg == 1
\* largest value of --max-pages that is tried (besides "not given")
MaxPagesArg == 1
\* number of runs of the program over the same files (SpecRestart)
MaxRuns == 2

\* ------------------------------------------------------------ option type
\* Python None / a value: the empty sequence / a one-element sequence
None == <<>>
Some(x) == <<x>>
IsNone(o) == o = <<>>

Max(a, b) == IF a >= b THEN a ELSE b
Min(a, b) == IF a <= b THEN a ELSE b

\* ------------------------------------------------------- sequence helpers
Range(s) == {s[i] : i \in 1..Len(s)}
Contains(s, x) == \E i \in 1..Len(s) : s[i] = x
\* s[:n] of Python for n >= 0
Take(s, n) == SubSeq(s, 1, Min(n, Len(s)))

\* ------------------------------------------------------------------- URLs
\* A URL is its path, the value of its pg query parameter (NoPg when the
\* parameter is absent, BadPg when it is not a digit string, otherwise the
\* number it spells) and its other query parameters, a sequence of
\* <<key, value>> pairs as they are written in the query string.
NoPg == 0 - 1
BadPg == 0 - 2
UrlQ(p, n, q) == [path |-> p, pg |-> n, q |-> q]
Url(p, n) == UrlQ(p, n, <<>>)

UrlA == Url("/shop/a", NoPg)
UrlB == Url("/shop/b", NoPg)
UrlC == Url("/shop/c", NoPg)

\* a category URL that names page 0
UrlZero == Url("/shop/a", 0)

\* the --url arguments that are tried
SeedLists == {<<UrlA, UrlB>>, <<UrlZero>>}

\* ------------------------------------------------- strings of characters
\* Text that the code transforms is a sequence of one-character strings.
Lower(c) == IF c = "M" THEN "m" ELSE IF c = "G" THEN "g" ELSE c
LowerStr(s) == [i \in 1..Len(s) |-> Lower(s[i])]
RECURSIVE LStrip(_)
LStrip(s) == IF s # <<>> /\ Head(s) = " " THEN LStrip(Tail(s)) ELSE s
RECURSIVE RStrip(_)
RStrip(s) ==
    IF s # <<>> /\ s[Len(s)] = " " THEN RStrip(SubSeq(s, 1, Len(s) - 1)) ELSE s
Strip(s) == RStrip(LStrip(s))

\* _product_key: f"{name.strip()}__{packaging_format.strip()}".lower()
ProductKey(name, packaging_format) ==
    LowerStr(Strip(name) \o <<"_", "_">> \o Strip(packaging_format))

\* ------------------------------------------------------ fetched responses
\* What page.goto / page.title / body text give: the navigation may time
\* out; otherwise a status (NoStatus when there is no response object) and
\* the markers that occur in the lower-cased title and body preview.
NoStatus == 0 - 1
Response(t, st, ti, bo) == [timeout |-> t, status |-> st, title |-> ti, body |-> bo]

Responses ==
    { Response(FALSE, 200, {}, {}),
      Response(FALSE, 403, {}, {}),
      Response(FALSE, 429, {}, {}),
      Response(FALSE, 429, {"just a moment"}, {}),
      Response(FALSE, NoStatus, {}, {"cloudflare"}),
      Response(FALSE, 200, {"rate limited"}, {"security verification"}),
      Response(FALSE, 200, {}, {"error 1015"}),
      Response(TRUE, NoStatus, {}, {}) }

_is_bot_challenge(response_status, title, body_preview) ==
    \/ (response_status # NoStatus /\ response_status = 403)
    \/ "just a moment" \in title
    \/ "security verification" \in body_preview
    \/ "cloudflare" \in body_preview

_is_rate_limited(response_status, title, body_preview) ==
    \/ response_status = 429
    \/ "error 1015" \in title
    \/ "rate limited" \in title
    \/ "error 1015" \in body_preview
    \/ "you are being rate limited" \in body_preview

\* The gate that follows every navigation (the same statements at the five
\* fetch sites): first the rate-limit raise, then the manual wait, then the
\* challenge raise.
RaisesRateLimit(rate_limited) == rate_limited
WaitsForManual(challenge_detected, manual_wait_seconds) ==
    challenge_detected /\ manual_wait_seconds > 0
\* mutant of RaisesChallenge: a configured grace period spares the raise
RaisesChallengeWithoutGrace(challenge_detected, headless, manual_wait_seconds) ==
    challenge_detected /\ headless /\ manual_wait_seconds = 0

RaisesChallenge(challenge_detected, headless, manual_wait_seconds) ==
    challenge_detected /\ headless

\* mutant of Gate: the challenge is handled before the rate limit
GateChallengeFirst(r, headless, manual_wait_seconds) ==
    LET c  == _is_bot_challenge(r.status, r.title, r.body)
        rl == _is_rate_limited(r.status, r.title, r.body)
    IN  IF r.timeout THEN "timeout"
        ELSE IF RaisesChallenge(c, headless, manual_wait_seconds) THEN "challenge_error"
        ELSE IF RaisesRateLimit(rl) THEN "rate_limited"
        ELSE "ok"

\* Outcome of one fetch-and-classify: "timeout", "rate_limited",
\* "challenge_error" (RuntimeError) or "ok" (the hop goes on to read the page)
Gate(r, headless, manual_wait_seconds) ==
    LET c  == _is_bot_challenge(r.status, r.title, r.body)
        rl == _is_rate_limited(r.status, r.title, r.body)
    IN  IF r.timeout THEN "timeout"
        ELSE IF RaisesRateLimit(rl) THEN "rate_limited"
        ELSE IF RaisesChallenge(c, headless, manual_wait_seconds) THEN "challenge_error"
        ELSE "ok"

\* did the hop pause for manual verification (only reached without a raise
\* of RateLimitError)
Paused(r, manual_wait_seconds) ==
    /\ ~r.timeout
    /\ ~RaisesRateLimit(_is_rate_limited(r.status, r.title, r.body))
    /\ WaitsForManual(_is_bot_challenge(r.status, r.title, r.body), manual_wait_seconds)

\* ------------------------------------------------------- persisted files
\* A file is missing, is not JSON ("malformed"), or holds JSON: of the shape
\* the program writes ("valid": the checkpoint object with its list
\* completed_urls, a list of entries for the other files), a value that is
\* neither an object nor a list ("scalar"), the other container
\* ("other_shape": a bare list where the checkpoint object is expected, an
\* object where a list is expected), or a checkpoint object whose
\* completed_urls is not a list ("not_list"). items is what the JSON holds.
FileOf(items) == [kind |-> "valid", items |-> items]
MissingFile == [kind |-> "missing", items |-> <<>>]
MalformedFile == [kind |-> "malformed", items |-> <<>>]
ScalarFile == [kind |-> "scalar", items |-> <<>>]
OtherShapeFile(items) == [kind |-> "other_shape", items |-> items]
NotListFile(items) == [kind |-> "not_list", items |-> items]

\* mutant of load_progress: a bare list of URLs is taken for a checkpoint
load_progress_lenient(file) ==
    IF file.kind \in {"valid", "other_shape"} THEN file.items ELSE <<>>

load_progress(file) ==
    IF file.kind = "missing" THEN <<>>
    \* json.loads raises, or data.get raises on a value that is no object
    ELSE IF file.kind \in {"malformed", "scalar", "other_shape"} THEN <<>>
    \* not isinstance(completed, list)
    ELSE IF file.kind = "not_list" THEN <<>>
    ELSE file.items

\* mutants of save_progress: the file is written without the newest entry;
\* the file is written with the newest entry alone
save_progress_stale(completed_urls) ==
    FileOf(SubSeq(completed_urls, 1, Len(completed_urls) - 1))
save_progress_last(completed_urls) ==
    FileOf(SubSeq(completed_urls, Len(completed_urls), Len(completed_urls)))

save_progress(completed_urls) == FileOf(completed_urls)

\* mutant of load_price_snapshots: the file is never read
load_price_snapshots_empty(file) == <<>>

\* mutant of load_price_snapshots: the entries are not looked at
load_price_snapshots_unchecked(file) ==
    IF file.kind = "valid" THEN file.items ELSE <<>>

\* the fields of ProductPriceSnapshot
SnapshotFields ==
    {"product_key", "supermarket_name", "price", "unit_price", "source_url",
     "scraped_at"}
\* an entry of a JSON list that is not an object is written [json |-> ...]
IsDict(item) == "json" \notin DOMAIN item
\* ProductPriceSnapshot(**item) raises on a missing or an unexpected name
Constructs(item) == DOMAIN item = SnapshotFields

load_price_snapshots(file) ==
    IF file.kind = "missing" THEN <<>>
    ELSE IF file.kind = "malformed" THEN <<>>
    \* not isinstance(raw, list)
    ELSE IF file.kind # "valid" THEN <<>>
    ELSE SelectSeq(file.items, LAMBDA item : IsDict(item) /\ Constructs(item))
write_price_snapshots(snapshots) == FileOf(snapshots)
write_products(products) == FileOf(products)

\* mutant of SnapshotKey: the store name is not part of the key
SnapshotKeyNoStore(s) ==
    <<s.product_key, s.scraped_at, s.source_url, s.price, s.unit_price>>

SnapshotKey(s) ==
    <<s.product_key, s.scraped_at, s.source_url, s.price, s.unit_price, s.supermarket_name>>

RECURSIVE MergeLoop(_, _, _)
MergeLoop(rest, seen, merged) ==
    IF rest = <<>> THEN merged
    ELSE IF SnapshotKey(Head(rest)) \in seen
         THEN MergeLoop(Tail(rest), seen, merged)
         ELSE MergeLoop(Tail(rest), seen \cup {SnapshotKey(Head(rest))},
                        Append(merged, Head(rest)))

\* mutant of merge_snapshots: the lists are concatenated
merge_snapshots_concat(existing, new) == existing \o new

merge_snapshots(existing, new) == MergeLoop(existing \o new, {}, <<>>)

\* ------------------------------------------------------------ discovery
\* quote_plus(unquote_plus(value)): a space is written as "+"
Reencode(value) == IF value = "a%20b" THEN "a+b" ELSE value

\* urlencode(parse_qs(query), doseq=True) on the parameters other than pg:
\* parse_qs leaves out the pairs with a blank value and groups the values
\* by key, the keys in the order of their first occurrence; urlencode
\* writes the groups one after the other
RECURSIVE GroupByKey(_)
GroupByKey(pairs) ==
    IF pairs = <<>> THEN <<>>
    ELSE LET k == Head(pairs)[1]
         IN  SelectSeq(pairs, LAMBDA p : p[1] = k)
                 \o GroupByKey(SelectSeq(pairs, LAMBDA p : p[1] # k))
Requery(q) ==
    LET kept == SelectSeq(q, LAMBDA p : p[2] # "")
        grouped == GroupByKey(kept)
    IN  [i \in 1..Len(grouped) |-> <<grouped[i][1], Reencode(grouped[i][2])>>]

\* _with_page_number: the query is parsed, pg is set to the page number
\* and the query is written again
_with_page_number(url, page_number) ==
    [url EXCEPT !.pg = page_number, !.q = Requery(url.q)]

IsDigit(pg) == pg >= 0
SetMax(S) == CHOOSE m \in S : \A x \in S : x <= m

\* mutant of PageNumbers: the start URL's own pg is not counted
PageNumbersOfAnchors(start_url, hrefs) ==
    {hrefs[i].pg : i \in {j \in 1..Len(hrefs) :
                             /\ hrefs[j].path = start_url.path
                             /\ hrefs[j].pg >= 0}}

\* page_numbers of discover_category_page_urls: the start URL's own pg (1
\* when it has none) if it is a digit string, and the digit pg values of the
\* anchors on the same path
PageNumbers(start_url, hrefs) ==
    LET current_pg == IF start_url.pg = NoPg THEN 1 ELSE start_url.pg
    IN  (IF IsDigit(current_pg) THEN {current_pg} ELSE {})
        \cup {hrefs[i].pg : i \in {j \in 1..Len(hrefs) :
                                     /\ hrefs[j].path = start_url.path
                                     /\ IsDigit(hrefs[j].pg)}}

\* the list discover_category_page_urls returns when the gate lets it through
discover_category_page_urls(start_url, hrefs) ==
    LET page_numbers == PageNumbers(start_url, hrefs)
    IN  IF page_numbers = {} THEN <<start_url>>
        ELSE [n \in 1..SetMax(page_numbers) |-> _with_page_number(start_url, n)]

InShop(url) == url.path # "/other"

\* the URLs of the CategoryLink list discover_category_urls returns: the
\* anchors under /shop/, first occurrence of each
RECURSIVE CategoryLoop(_, _, _)
CategoryLoop(link_data, seen, categories) ==
    IF link_data = <<>> THEN categories
    ELSE IF ~InShop(Head(link_data)) \/ Head(link_data) \in seen
         THEN CategoryLoop(Tail(link_data), seen, categories)
         ELSE CategoryLoop(Tail(link_data), seen \cup {Head(link_data)},
                           Append(categories, Head(link_data)))

discover_category_urls(link_data) == CategoryLoop(link_data, {}, <<>>)

\* mutant of ExtendResolved: seen_urls is not consulted
ExtendResolvedAll(resolved_urls, expanded_urls) == resolved_urls \o expanded_urls

\* lines 923-927 of resolve_urls: append the URLs not seen before
RECURSIVE ExtendResolved(_, _)
ExtendResolved(resolved_urls, expanded_urls) ==
    IF expanded_urls = <<>> THEN resolved_urls
    ELSE IF Contains(resolved_urls, Head(expanded_urls))
         THEN ExtendResolved(resolved_urls, Tail(expanded_urls))
         ELSE ExtendResolved(Append(resolved_urls, Head(expanded_urls)),
                             Tail(expanded_urls))

\* what the pages show: the anchor lists a category discovery may read and
\* the pagination anchors a page may carry
LinkDataChoices == {<<>>, <<UrlC, Url("/other", NoPg), UrlC>>, <<UrlB>>}
PageHrefChoices(url) == {<<>>, <<Url(url.path, 2), Url("/other", 3)>>}

\* ------------------------------------------------------------- targets
\* mutant of Targets: the page cap is applied before the checkpoint filter
TargetsCapFirst(to_scrape, completed_urls, resume, max_pages) ==
    LET completed_set == IF resume THEN Range(completed_urls) ELSE {}
        capped == IF IsNone(max_pages) THEN to_scrape
                  ELSE Take(to_scrape, Max(0, max_pages[1]))
    IN  SelectSeq(capped, LAMBDA u : u \notin completed_set)

\* mutant of Targets: the checkpoint filter is applied in every mode
TargetsSkipAlways(to_scrape, completed_urls, resume, max_pages) ==
    LET open == SelectSeq(to_scrape, LAMBDA u : u \notin Range(completed_urls))
    IN  IF IsNone(max_pages) THEN open
        ELSE Take(open, Max(0, max_pages[1]))

\* lines 956-959 of scrape_urls_for_current_store
Targets(to_scrape, completed_urls, resume, max_pages) ==
    LET completed_set == IF resume THEN Range(completed_urls) ELSE {}
        targets == SelectSeq(to_scrape, LAMBDA u : u \notin completed_set)
    IN  IF IsNone(max_pages) THEN targets
        ELSE Take(targets, Max(0, max_pages[1]))

\* mutant of RetriesExhausted: the comparison is off by one
RetriesExhaustedLate(attempt, max_rate_limit_retries) ==
    attempt > Max(0, max_rate_limit_retries)

\* line 986: the retries of the current target are used up
RetriesExhausted(attempt, max_rate_limit_retries) ==
    attempt >= Max(0, max_rate_limit_retries)

\* price_cents.replace(".", "")
RemoveDots(s) == SelectSeq(s, LAMBDA c : c # ".")

\* mutant of ComposePrice: the cents are used as they were read
ComposePriceRaw(price_dollars, price_cents) ==
    IF price_dollars # <<>> /\ price_cents # <<>>
    THEN price_dollars \o <<".">> \o price_cents
    ELSE price_dollars

\* lines 575-576: the price of a card from its dollars text and cents text
ComposePrice(price_dollars, price_cents) ==
    LET cleaned_cents == Strip(RemoveDots(price_cents))
    IN  IF price_dollars # <<>> /\ cleaned_cents # <<>>
        THEN price_dollars \o <<".">> \o cleaned_cents
        ELSE price_dollars

\* ------------------------------------------------------------ extraction
\* A product card as scrape_products reads it (name, packaging format,
\* src attribute of the image or "" when there is none, composed price,
\* unit price).
Card(n, pf, img) ==
    [name |-> n, packaging_format |-> pf, image |-> img, price |-> "3.50",
     unit_price |-> "u"]

\* the Product dataclass as scrape_products fills it
Product(name, packaging_format, image) ==
    [product_key |-> ProductKey(name, packaging_format),
     name |-> name, packaging_format |-> packaging_format, image |-> image]

\* urljoin(url, image_raw or ""): without a src the page URL itself (given
\* by its path), otherwise the image URL
urljoin(url, image_raw) == IF image_raw = "" THEN url.path ELSE image_raw

ProductOf(card, url) ==
    Product(card.name, card.packaging_format, urljoin(url, card.image))
SnapshotOf(card, url, supermarket_name, scraped_at) ==
    [product_key |-> ProductKey(card.name, card.packaging_format),
     supermarket_name |-> supermarket_name, price |-> card.price,
     unit_price |-> card.unit_price, source_url |-> url,
     scraped_at |-> scraped_at]

\* mutant of DedupeLoop: a later image replaces the image that is held
RECURSIVE DedupeLoopOverwrite(_, _)
DedupeLoopOverwrite(rest, merged) ==
    IF rest = <<>> THEN merged
    ELSE LET product == Head(rest)
             at == {i \in 1..Len(merged) : merged[i].product_key = product.product_key}
         IN  IF at = {} THEN DedupeLoopOverwrite(Tail(rest), Append(merged, product))
             ELSE LET i == CHOOSE j \in at : TRUE
                  IN  IF product.image # ""
                      THEN DedupeLoopOverwrite(Tail(rest),
                                      [merged EXCEPT ![i].image = product.image])
                      ELSE DedupeLoopOverwrite(Tail(rest), merged)

\* lines 1045-1060: one product per key, first-seen order, a blank image
\* filled from a later observation
RECURSIVE DedupeLoop(_, _)
DedupeLoop(rest, merged) ==
    IF rest = <<>> THEN merged
    ELSE LET product == Head(rest)
             at == {i \in 1..Len(merged) : merged[i].product_key = product.product_key}
         IN  IF at = {} THEN DedupeLoop(Tail(rest), Append(merged, product))
             ELSE LET i == CHOOSE j \in at : TRUE
                  IN  IF merged[i].image = "" /\ product.image # ""
                      THEN DedupeLoop(Tail(rest),
                                      [merged EXCEPT ![i].image = product.image])
                      ELSE DedupeLoop(Tail(rest), merged)

Dedupe(all_products) == DedupeLoop(all_products, <<>>)

\* what the product cards of a page are once it has loaded; a fetched page
\* may also show no card at all
SiteCards(url) ==
    IF url.path = "/shop/a" THEN <<Card(<<"M">>, <<"g">>, "")>>
    ELSE IF url.path = "/shop/c" THEN <<Card(<<"m">>, <<"G", " ">>, "i.png")>>
    ELSE <<>>
CardsChoices(url) == {<<>>, SiteCards(url)}

\* the store lists discover_store_names may return (sorted, no duplicates)
StoreLists == {<<>>, <<"S1">>, <<"S1", "S2">>}

\* -------------------------------------------------------------- arguments
\* largest number of options that depart from their argparse defaults in
\* one command line
MaxOptions == 2

Defaults ==
    [url |-> <<UrlA, UrlB>>, resume |-> FALSE, scrape_all_stores |-> FALSE,
     max_stores |-> None, choose_store |-> FALSE,
     discover_category_urls |-> FALSE, crawl_category_pages |-> FALSE,
     categories_only |-> FALSE, dedupe |-> FALSE, headed |-> FALSE,
     manual_wait_seconds |-> 0, max_rate_limit_retries |-> 0,
     max_pages |-> None, append_snapshots |-> FALSE, flush_every_url |-> FALSE,
     rate_limit_wait_seconds |-> 300, delay_seconds |-> 3,
     delay_jitter_seconds |-> 1]

ArgSpace ==
    [url : SeedLists, resume : BOOLEAN, scrape_all_stores : BOOLEAN,
     max_stores : {None, Some(0), Some(1)}, choose_store : BOOLEAN,
     discover_category_urls : BOOLEAN, crawl_category_pages : BOOLEAN,
     categories_only : BOOLEAN, dedupe : BOOLEAN, headed : BOOLEAN,
     manual_wait_seconds : {0, 60},
     max_rate_limit_retries : (0 - 1)..MaxRetriesArg,
     max_pages : {None} \cup {Some(n) : n \in 0..MaxPagesArg},
     append_snapshots : BOOLEAN, flush_every_url : BOOLEAN,
     rate_limit_wait_seconds : {300}, delay_seconds : {3},
     delay_jitter_seconds : {1}]

Departures(a) == Cardinality({f \in DOMAIN Defaults : a[f] # Defaults[f]})
ArgChoices == {a \in ArgSpace : Departures(a) <= MaxOptions}

\* the files a run may find
OldSnapshot ==
    [product_key |-> <<"o">>, supermarket_name |-> "", price |-> "1",
     unit_price |-> "u", source_url |-> UrlA, scraped_at |-> 0]
ProgressFiles == {MissingFile, MalformedFile, FileOf(<<UrlB>>), FileOf(<<UrlA, UrlC>>)}
SnapshotFiles == {MissingFile, FileOf(<<OldSnapshot>>)}

\* ------------------------------------------------------------------ state
VARIABLES
    args,            \* the parsed command line (args.resume is reassigned)
    pc,              \* where main() stands
    error,           \* the exception that ended the process, or "none"
    run,             \* number of this run
    progress_file, product_file, snapshot_file,      \* the persisted files
    progress,        \* progress.completed_urls
    all_products, all_snapshots, rate_limit_hit,
    stores, store_idx, current_store,
    resolved_urls, seed_idx, expanded_urls, cat_idx, paginated_urls,
    targets, target_idx, attempt, products, snapshots,
    clock,           \* datetime.now
    slept,           \* history: the waits since the last navigation
    hop,             \* history: the last fetch-and-classify
    calls,           \* history: scrape_products calls for the current target
    scraped,         \* history: targets scraped successfully in this pass
    yield,           \* history: <<url, product_key>> of checkpointed targets
    loaded,          \* history: what the run started from
    call, result,    \* a function of the program applied on its own
    scroll           \* the locals of the scroll loop of discover_store_names

files == <<progress_file, product_file, snapshot_file>>
memory == <<progress, all_products, all_snapshots, rate_limit_hit>>
storeVars == <<stores, store_idx, current_store>>
resolveVars == <<resolved_urls, seed_idx, expanded_urls, cat_idx, paginated_urls>>
scrapeVars == <<targets, target_idx, attempt, products, snapshots>>
history == <<slept, hop, calls, scraped, yield, loaded>>
aux == <<call, result, scroll>>
vars == <<args, pc, error, run, files, memory, storeVars, resolveVars,
          scrapeVars, clock, history, aux>>

\* no function is applied on its own, the scroll loop is not running
NoCall == [fn |-> "none"]
NoResult == <<>>
NoScroll == [pc |-> "none"]

NoHop == [site |-> "none", url |-> UrlA, challenged |-> FALSE,
          rate_limited |-> FALSE, paused |-> FALSE, outcome |-> "none"]

\* the record of a fetch of url at a site that got response r
HopOf(site, url, r) ==
    [site |-> site, url |-> url,
     challenged |-> ~r.timeout /\ _is_bot_challenge(r.status, r.title, r.body),
     rate_limited |-> ~r.timeout /\ _is_rate_limited(r.status, r.title, r.body),
     paused |-> Paused(r, Max(0, args.manual_wait_seconds)),
     outcome |-> Gate(r, ~args.headed, Max(0, args.manual_wait_seconds))]

ErrorOf(outcome) ==
    IF outcome = "rate_limited" THEN "RateLimitError"
    ELSE IF outcome = "challenge_error" THEN "RuntimeError"
    ELSE "TimeoutError"

\* lines 809-819: the state main() builds before the browser starts, as a
\* record of the values of the variables (a: command line, pf, of, sf: the
\* progress, product and snapshot files found, n: run number, now: time,
\* y: history of checkpointed records, halt: the previous run was halted)
StartState(a, pf, of, sf, n, now, y, halt) ==
    [args |-> a, pc |-> "stores", error |-> "none", run |-> n,
     progress_file |-> pf, product_file |-> of, snapshot_file |-> sf,
     progress |-> load_progress(pf),
     all_products |-> <<>>,
     all_snapshots |-> IF a.append_snapshots THEN load_price_snapshots(sf) ELSE <<>>,
     rate_limit_hit |-> FALSE,
     clock |-> now,
     yield |-> y,
     loaded |-> [progress |-> pf.items, snapshots |-> sf.items,
                 argv |-> a, after_halt |-> halt]]

Init ==
    \E a \in ArgChoices, pf \in ProgressFiles, sf \in SnapshotFiles :
        LET s == StartState(a, pf, MissingFile, sf, 1, 1, {}, FALSE)
        IN  /\ args = s.args /\ pc = s.pc /\ error = s.error /\ run = s.run
            /\ progress_file = s.progress_file
            /\ product_file = s.product_file
            /\ snapshot_file = s.snapshot_file
            /\ progress = s.progress
            /\ all_products = s.all_products
            /\ all_snapshots = s.all_snapshots
            /\ rate_limit_hit = s.rate_limit_hit
            /\ clock = s.clock /\ yield = s.yield /\ loaded = s.loaded
            /\ stores = <<>> /\ store_idx = 0 /\ current_store = ""
            /\ resolved_urls = <<>> /\ seed_idx = 1 /\ expanded_urls = <<>>
            /\ cat_idx = 0 /\ paginated_urls = <<>>
            /\ targets = <<>> /\ target_idx = 0 /\ attempt = 0
            /\ products = <<>> /\ snapshots = <<>>
            /\ hop = NoHop /\ calls = 0 /\ scraped = <<>> /\ slept = <<>>
            /\ call = NoCall /\ result = NoResult /\ scroll = NoScroll

\* ---------------------------------------------------------------- actions
headless == ~args.headed
manual_wait == Max(0, args.manual_wait_seconds)

\* the waits of the code, in milliseconds: the pause for manual verification
\* of a hop, the wait before a retry, the delay between requests (at least
\* lo, less than hi)
Sleep(kind, lo, hi) == [kind |-> kind, lo |-> lo, hi |-> hi]
ManualSleep(h) ==
    IF h.paused THEN <<Sleep("manual", manual_wait * 1000, manual_wait * 1000)>>
    ELSE <<>>
RetrySleep ==
    <<Sleep("rate_limit", Max(0, args.rate_limit_wait_seconds) * 1000,
            Max(0, args.rate_limit_wait_seconds) * 1000)>>
DelaySleep ==
    IF args.delay_seconds > 0
    THEN <<Sleep("delay", Max(0, args.delay_seconds) * 1000,
                 (Max(0, args.delay_seconds) + Max(0, args.delay_jitter_seconds)) * 1000)>>
    ELSE <<>>

\* an exception that nothing catches ends the process
Crash(outcome) ==
    /\ pc' = "crashed"
    /\ error' = ErrorOf(outcome)

\* mutant of AfterPass: the loop over the stores ends after its first pass
AfterPassOnce(multi, halted, idx) ==
    /\ pc' = "finalize"
    /\ store_idx' = idx

\* lines 1022-1040: what follows a return of scrape_urls_for_current_store
\* (multi: the call was made by the loop over the stores)
AfterPass(multi, halted, idx) ==
    IF multi /\ ~halted /\ idx < Len(stores)
    THEN /\ pc' = "choose"
         /\ store_idx' = idx + 1
    ELSE /\ pc' = "finalize"
         /\ store_idx' = idx

\* mutant of LeavesLoop: the loop is left after every target
LeavesLoopAlways(halted) == TRUE

\* mutant of LeavesLoop: the halt check is missing
LeavesLoopNever(halted) == FALSE

\* line 995: the loop over the targets is left once the halt flag is set
LeavesLoop(halted) == halted

\* lines 953-963: scrape_urls_for_current_store is entered
BeginPass(multi, idx, halted) ==
    LET t == Targets(resolved_urls, progress, args.resume, args.max_pages)
    IN  /\ targets' = t
        /\ target_idx' = 1
        /\ attempt' = 0
        /\ calls' = 0
        /\ scraped' = <<>>
        /\ products' = <<>>
        /\ snapshots' = <<>>
        /\ IF t = <<>>
           THEN AfterPass(multi, halted, idx)
           ELSE /\ pc' = "scrape"
                /\ store_idx' = idx

\* lines 836-850: --scrape-all-stores discovers the stores
DiscoverStoreNames ==
    /\ pc = "stores"
    /\ args.scrape_all_stores
    /\ \E r \in Responses :
         LET h == HopOf("discover_store_names", args.url[1], r)
         IN  /\ hop' = h
             /\ slept' = ManualSleep(h)
             /\ IF h.outcome = "ok"
                THEN \E found \in StoreLists :
                       /\ stores' = IF IsNone(args.max_stores) THEN found
                                    ELSE Take(found, Max(0, args.max_stores[1]))
                       /\ args' = [args EXCEPT !.resume = FALSE]
                       /\ pc' = "seed"
                       /\ error' = error
                ELSE /\ Crash(h.outcome)
                     /\ UNCHANGED <<stores, args>>
    /\ UNCHANGED <<run, files, memory, store_idx, current_store, resolveVars,
                   scrapeVars, clock, calls, scraped, yield, loaded>>
    /\ UNCHANGED aux

\* lines 855-866: --choose-store selects one store before the crawl
ChooseStoreOnce ==
    /\ pc = "stores"
    /\ ~args.scrape_all_stores
    /\ args.choose_store
    /\ \E r \in Responses :
         LET h == HopOf("choose_store", args.url[1], r)
         IN  /\ hop' = h
             /\ slept' = ManualSleep(h)
             /\ IF h.outcome = "ok"
                THEN /\ current_store' = "S1"
                     /\ pc' = "seed"
                     /\ error' = error
                ELSE /\ Crash(h.outcome)
                     /\ UNCHANGED current_store
    /\ UNCHANGED <<args, run, files, memory, stores, store_idx, resolveVars,
                   scrapeVars, clock, calls, scraped, yield, loaded>>
    /\ UNCHANGED aux

\* lines 852-855: neither store discovery nor store selection
NoStoreSelection ==
    /\ pc = "stores"
    /\ ~args.scrape_all_stores
    /\ ~args.choose_store
    /\ pc' = "seed"
    /\ UNCHANGED <<args, error, run, files, memory, storeVars, resolveVars,
                   scrapeVars, clock, history>>
    /\ UNCHANGED aux

\* lines 923-929: the expanded URLs of a seed join the resolved list and
\* the loop goes to the next seed
MergeSeed(expanded) ==
    /\ resolved_urls' = ExtendResolved(resolved_urls, expanded)
    /\ seed_idx' = seed_idx + 1
    /\ pc' = IF seed_idx = Len(args.url) THEN "resolved" ELSE "seed"
    /\ expanded_urls' = expanded
    /\ UNCHANGED <<cat_idx, paginated_urls>>

\* lines 900-902: with --crawl-category-pages the expanded URLs are
\* paginated first
AfterExpansion(expanded) ==
    IF args.crawl_category_pages
    THEN /\ expanded_urls' = expanded
         /\ cat_idx' = 1
         /\ paginated_urls' = <<>>
         /\ pc' = "pages"
         /\ UNCHANGED <<resolved_urls, seed_idx>>
    ELSE MergeSeed(expanded)

\* mutant of ResolveAborts: the URLs resolved so far are returned
ResolveAbortsPartial ==
    /\ pc' = "resolved"
    /\ UNCHANGED <<resolved_urls, seed_idx, expanded_urls, cat_idx, paginated_urls>>

\* lines 885-887 and 910-912: resolve_urls returns [] on RateLimitError
ResolveAborts ==
    /\ resolved_urls' = <<>>
    /\ pc' = "resolved"
    /\ UNCHANGED <<seed_idx, expanded_urls, cat_idx, paginated_urls>>

\* lines 872-898: category discovery for the next seed
DiscoverCategoryUrls ==
    /\ pc = "seed"
    /\ args.discover_category_urls
    /\ \E r \in Responses :
         LET h == HopOf("discover_category_urls", args.url[seed_idx], r)
         IN  /\ hop' = h
             /\ slept' = ManualSleep(h)
             /\ IF h.outcome = "ok"
                THEN \E link_data \in LinkDataChoices :
                       LET discovered == discover_category_urls(link_data)
                       IN  /\ AfterExpansion(IF discovered = <<>>
                                             THEN <<args.url[seed_idx]>>
                                             ELSE discovered)
                           /\ error' = error
                ELSE IF h.outcome = "rate_limited"
                THEN /\ ResolveAborts
                     /\ error' = error
                ELSE /\ Crash(h.outcome)
                     /\ UNCHANGED resolveVars
    /\ UNCHANGED <<args, run, files, memory, storeVars, scrapeVars, clock,
                   calls, scraped, yield, loaded>>
    /\ UNCHANGED aux

\* lines 872-875: a seed without category discovery expands to itself
SeedAsIs ==
    /\ pc = "seed"
    /\ ~args.discover_category_urls
    /\ AfterExpansion(<<args.url[seed_idx]>>)
    /\ UNCHANGED <<args, error, run, files, memory, storeVars, scrapeVars,
                   clock, history>>
    /\ UNCHANGED aux

\* lines 902-921: pagination discovery for the next expanded URL
DiscoverCategoryPageUrls ==
    /\ pc = "pages"
    /\ \E r \in Responses :
         LET category_url == expanded_urls[cat_idx]
             h == HopOf("discover_category_page_urls", category_url, r)
         IN  /\ hop' = h
             /\ slept' = ManualSleep(h) \o
                            (IF h.outcome = "ok" THEN DelaySleep ELSE <<>>)
             /\ IF h.outcome = "ok"
                THEN \E hrefs \in PageHrefChoices(category_url) :
                       LET paginated == paginated_urls \o
                               discover_category_page_urls(category_url, hrefs)
                       IN  /\ IF cat_idx = Len(expanded_urls)
                              THEN /\ resolved_urls' = ExtendResolved(resolved_urls, paginated)
                                   /\ seed_idx' = seed_idx + 1
                                   /\ pc' = IF seed_idx = Len(args.url)
                                            THEN "resolved" ELSE "seed"
                                   /\ expanded_urls' = paginated
                                   /\ UNCHANGED cat_idx
                              ELSE /\ cat_idx' = cat_idx + 1
                                   /\ UNCHANGED <<resolved_urls, seed_idx, expanded_urls, pc>>
                           /\ paginated_urls' = paginated
                           /\ error' = error
                ELSE IF h.outcome = "rate_limited"
                THEN /\ ResolveAborts
                     /\ error' = error
                ELSE /\ Crash(h.outcome)
                     /\ UNCHANGED resolveVars
    /\ UNCHANGED <<args, run, files, memory, storeVars, scrapeVars, clock,
                   calls, scraped, yield, loaded>>
    /\ UNCHANGED aux

multi_store == args.scrape_all_stores /\ stores # <<>>

\* lines 931-951 and the entry of lines 1022-1040
AfterResolve ==
    LET halted == IF resolved_urls = <<>>
                     /\ (args.discover_category_urls \/ args.crawl_category_pages)
                  THEN TRUE ELSE rate_limit_hit
    IN  /\ pc = "resolved"
        /\ rate_limit_hit' = halted
        /\ IF args.categories_only
           THEN /\ pc' = "returned"
                /\ UNCHANGED <<store_idx, scrapeVars, calls, scraped>>
           ELSE IF multi_store
           THEN /\ pc' = "choose"
                /\ store_idx' = 1
                /\ UNCHANGED <<scrapeVars, calls, scraped>>
           ELSE BeginPass(FALSE, store_idx, halted)
        /\ UNCHANGED <<args, error, run, files, progress, all_products,
                       all_snapshots, stores, current_store, resolveVars,
                       clock, slept, hop, yield, loaded>>
        /\ UNCHANGED aux

\* lines 1023-1036: the next store is selected and its pass begins
ChooseStore ==
    /\ pc = "choose"
    /\ \E r \in Responses :
         LET h == HopOf("choose_store", args.url[1], r)
         IN  /\ hop' = h
             /\ slept' = ManualSleep(h)
             /\ IF h.outcome = "ok"
                THEN /\ current_store' = stores[store_idx]
                     /\ BeginPass(TRUE, store_idx, rate_limit_hit)
                     /\ error' = error
                ELSE /\ Crash(h.outcome)
                     /\ UNCHANGED <<current_store, store_idx, scrapeVars,
                                    calls, scraped>>
    /\ UNCHANGED <<args, run, files, memory, stores, resolveVars, clock, yield, loaded>>
    /\ UNCHANGED aux

\* the records scrape_products builds from the cards of a page
ProductsOf(cards, url) == [i \in 1..Len(cards) |-> ProductOf(cards[i], url)]
SnapshotsOf(cards, url, store, now) ==
    [i \in 1..Len(cards) |-> SnapshotOf(cards[i], url, store, now + i - 1)]

\* lines 966-993: one pass of the retry loop, a call of scrape_products
ScrapeAttempt ==
    /\ pc = "scrape"
    /\ \E r \in Responses :
         LET current_url == targets[target_idx]
             h == HopOf("scrape_products", current_url, r)
         IN  /\ hop' = h
             /\ calls' = calls + 1
             /\ slept' = IF h.outcome = "rate_limited"
                            /\ ~RetriesExhausted(attempt, args.max_rate_limit_retries)
                         THEN RetrySleep ELSE ManualSleep(h)
             /\ IF h.outcome = "ok"
                THEN \E cards \in CardsChoices(current_url) :
                       /\ products' = ProductsOf(cards, current_url)
                       /\ snapshots' = SnapshotsOf(cards, current_url, current_store, clock)
                       /\ clock' = clock + Len(cards)
                       /\ scraped' = Append(scraped, current_url)
                       /\ pc' = "record"
                       /\ UNCHANGED <<attempt, rate_limit_hit, error>>
                ELSE IF h.outcome = "rate_limited"
                THEN IF RetriesExhausted(attempt, args.max_rate_limit_retries)
                     THEN /\ rate_limit_hit' = TRUE
                          /\ products' = <<>>
                          /\ snapshots' = <<>>
                          /\ pc' = "record"
                          /\ UNCHANGED <<attempt, clock, scraped, error>>
                     ELSE /\ attempt' = attempt + 1
                          /\ UNCHANGED <<pc, rate_limit_hit, products, snapshots,
                                         clock, scraped, error>>
                ELSE /\ Crash(h.outcome)
                     /\ UNCHANGED <<attempt, rate_limit_hit, products, snapshots,
                                    clock, scraped>>
    /\ UNCHANGED <<args, run, files, progress, all_products, all_snapshots,
                   storeVars, resolveVars, targets, target_idx, yield, loaded>>
    /\ UNCHANGED aux

\* mutant of extend: the records are added twice
extend_twice(list, records) == list \o records \o records

\* lines 997-998: all_products.extend(products), all_snapshots.extend(snapshots)
extend(list, records) == list \o records

\* lines 995-1002: the halt check, the accumulation and the checkpoint
RecordTarget ==
    /\ pc = "record"
    /\ IF LeavesLoop(rate_limit_hit)
       THEN /\ AfterPass(multi_store, rate_limit_hit, store_idx)
            /\ UNCHANGED <<progress, progress_file, all_products, all_snapshots,
                           yield>>
       ELSE /\ all_products' = extend(all_products, products)
            /\ all_snapshots' = extend(all_snapshots, snapshots)
            /\ IF args.resume
               THEN /\ progress' = Append(progress, targets[target_idx])
                    /\ progress_file' = save_progress(progress')
                    /\ yield' = yield \cup
                           {<<targets[target_idx], products[i].product_key>> :
                              i \in 1..Len(products)}
               ELSE UNCHANGED <<progress, progress_file, yield>>
            /\ pc' = "flush"
            /\ UNCHANGED store_idx
    /\ UNCHANGED <<args, error, run, product_file, snapshot_file, rate_limit_hit,
                   stores, current_store, resolveVars, scrapeVars, clock, slept,
                   hop, calls, scraped, loaded>>
    /\ UNCHANGED aux

\* lines 1077-1082 and 1004-1012: the product file and the snapshot file
\* are written from the accumulated lists
WriteOutputs(final_products) ==
    /\ product_file' = write_products(final_products)
    /\ snapshot_file' =
         IF args.append_snapshots
         THEN write_price_snapshots(
                  merge_snapshots(load_price_snapshots(snapshot_file), all_snapshots))
         ELSE write_price_snapshots(all_snapshots)

\* lines 1004-1020: the optional flush, the storage state, the delay; then
\* the next target or the end of the pass
FlushAndDelay ==
    /\ pc = "flush"
    /\ IF args.flush_every_url
       THEN WriteOutputs(all_products)
       ELSE UNCHANGED <<product_file, snapshot_file>>
    /\ IF target_idx = Len(targets)
       THEN /\ AfterPass(multi_store, rate_limit_hit, store_idx)
            /\ UNCHANGED <<target_idx, attempt, calls>>
       ELSE /\ target_idx' = target_idx + 1
            /\ attempt' = 0
            /\ calls' = 0
            /\ pc' = "scrape"
            /\ UNCHANGED store_idx
    /\ UNCHANGED <<args, error, run, progress_file, memory, stores,
                   current_store, resolveVars, targets, products, snapshots,
                   clock, hop, scraped, yield, loaded>>
    /\ slept' = slept \o DelaySleep
    /\ UNCHANGED aux

\* lines 1042-1086: the browser is closed, the products are deduplicated
\* on request, and the outputs are written
Finalize ==
    /\ pc = "finalize"
    /\ all_products' = IF args.dedupe THEN Dedupe(all_products) ELSE all_products
    /\ WriteOutputs(all_products')
    /\ pc' = "done"
    /\ UNCHANGED <<args, error, run, progress_file, progress, all_snapshots,
                   rate_limit_hit, storeVars, resolveVars, scrapeVars, clock,
                   history>>
    /\ UNCHANGED aux

Next ==
    \/ DiscoverStoreNames
    \/ ChooseStoreOnce
    \/ NoStoreSelection
    \/ DiscoverCategoryUrls
    \/ SeedAsIs
    \/ DiscoverCategoryPageUrls
    \/ AfterResolve
    \/ ChooseStore
    \/ ScrapeAttempt
    \/ RecordTarget
    \/ FlushAndDelay
    \/ Finalize

Spec == Init /\ [][Next]_vars

\* the process has ended: normally after the outputs were written, by the
\* early return of --categories-only, or by an uncaught exception
Ended == pc \in {"done", "returned", "crashed"}

\* The program is started again over the files the previous run left, with
\* the same command line or with --resume added to it.
Restart ==
    /\ Ended
    /\ run < MaxRuns
    /\ \E a \in {loaded.argv, [loaded.argv EXCEPT !.resume = TRUE]} :
         LET s == StartState(a, progress_file, product_file, snapshot_file,
                             run + 1, clock, yield, rate_limit_hit)
         IN  /\ args' = s.args /\ pc' = s.pc /\ error' = s.error /\ run' = s.run
             /\ progress' = s.progress
             /\ all_products' = s.all_products
             /\ all_snapshots' = s.all_snapshots
             /\ rate_limit_hit' = s.rate_limit_hit
             /\ loaded' = s.loaded
    /\ stores' = <<>> /\ store_idx' = 0 /\ current_store' = ""
    /\ resolved_urls' = <<>> /\ seed_idx' = 1 /\ expanded_urls' = <<>>
    /\ cat_idx' = 0 /\ paginated_urls' = <<>>
    /\ targets' = <<>> /\ target_idx' = 0 /\ attempt' = 0
    /\ products' = <<>> /\ snapshots' = <<>>
    /\ hop' = NoHop /\ calls' = 0 /\ scraped' = <<>> /\ slept' = <<>>
    /\ UNCHANGED <<files, clock, yield>>
    /\ UNCHANGED aux

NextRestart == Next \/ Restart

SpecRestart == Init /\ [][NextRestart]_vars

\* ------------------------------------------------------------------ claims
\* the entries the run has appended to the checkpoint it loaded
Added == SubSeq(progress, Len(loaded.progress) + 1, Len(progress))
KeysIn(file) == {file.items[i].product_key : i \in 1..Len(file.items)}
retry_limit == Max(0, args.max_rate_limit_retries)

\* C1: after a halted run followed by a run in resume mode that finished
\* without a halt, the
\* product file holds the product of every checkpointed target (the ones
\* completed in the first run included), and the second run scraped no
\* target that was in the checkpoint it loaded.
C1_NoWorkLostAcrossRestarts ==
    (run > 1 /\ loaded.after_halt /\ args.resume /\ pc = "done" /\ ~rate_limit_hit) =>
        /\ \A y \in yield :
             y[1] \in Range(load_progress(progress_file)) =>
                 y[2] \in KeysIn(product_file)
        /\ Range(scraped) \cap Range(loaded.progress) = {}

\* C2: once the halt flag is set the run does not end in an uncaught
\* exception, no target is scraped any more (the last scrape is the
\* rate-limited one), and when the run is done the files hold every
\* accumulated product and snapshot and every checkpoint entry.
C2_HaltStillPersists ==
    rate_limit_hit =>
        /\ pc # "crashed"
        /\ (hop.site = "scrape_products" => hop.outcome = "rate_limited")
        /\ (pc = "done" =>
              /\ Range(all_products) \subseteq Range(product_file.items)
              /\ Range(all_snapshots) \subseteq Range(snapshot_file.items)
              /\ Range(progress) \subseteq Range(load_progress(progress_file)))

\* C3: scrape_products is called at most max(0, maxRetries) + 1 times for a
\* target; a further call is pending only after a rate-limited call made
\* while the counter was below the limit, and after the fixed wait; any
\* other failure ends the process instead of being retried; a rate-limited
\* call at the limit gives empty results, sets the halt flag and raises
\* nothing.
C3_BoundedRetry ==
    /\ calls <= retry_limit + 1
    /\ (pc = "scrape" /\ calls > 0) =>
          /\ hop.site = "scrape_products"
          /\ hop.outcome = "rate_limited"
          /\ calls - 1 < retry_limit
          /\ attempt = calls
          /\ slept = <<Sleep("rate_limit", 300000, 300000)>>
    /\ (hop.site = "scrape_products" /\ hop.outcome \in {"timeout", "challenge_error"}) =>
          /\ pc = "crashed"
          /\ error # "RateLimitError"
    /\ (hop.site = "scrape_products" /\ hop.outcome = "rate_limited" /\ pc # "scrape") =>
          /\ calls = retry_limit + 1
          /\ rate_limit_hit
          /\ products = <<>> /\ snapshots = <<>>
          /\ error = "none" /\ pc # "crashed"

\* C3 witness: a target was retried once and then used up its retries
C3_Witness ==
    /\ args.max_rate_limit_retries = 1
    /\ calls = 2
    /\ pc = "record"
    /\ rate_limit_hit
    /\ hop.outcome = "rate_limited"

\* C4: no RateLimitError ends the process, at whichever fetch the rate
\* limit is detected.
C4_RateLimitNeverCrashes == error # "RateLimitError"

\* C5 as claimed: a challenged (not rate-limited) hop fails only when no
\* grace period is configured and the run is headless; with a grace period
\* it pauses and goes on, headless or not.
C5_GraceAlwaysContinues ==
    (hop.challenged /\ ~hop.rate_limited) =>
        /\ (hop.outcome = "challenge_error" => (manual_wait = 0 /\ headless))
        /\ (manual_wait > 0 => (hop.paused /\ hop.outcome = "ok"))

\* C5 amended: a challenged (not rate-limited) hop fails exactly when the run
\* is headless, with or without a grace period; it pauses for the grace
\* period exactly when one is configured (before failing, if headless); a
\* headed run goes on. The challenged call leaves the retry counter alone.
C5_ChallengeFatalWhenHeadless ==
    (hop.challenged /\ ~hop.rate_limited) =>
        /\ (hop.outcome = "challenge_error") = headless
        /\ (hop.outcome = "ok") = ~headless
        /\ hop.paused = (manual_wait > 0)
        /\ (hop.outcome = "challenge_error" => (pc = "crashed" /\ error = "RuntimeError"))
        /\ (hop.outcome = "ok" => pc # "crashed")
        /\ (hop.site = "scrape_products" /\ calls > 0 => attempt = calls - 1)

\* C5 witness: a challenged target scrape in a headless run with a grace
\* period, after an earlier rate-limited attempt: it paused, then failed
C5_Witness ==
    /\ hop.site = "scrape_products"
    /\ hop.challenged /\ ~hop.rate_limited
    /\ manual_wait > 0 /\ headless
    /\ hop.paused
    /\ pc = "crashed"
    /\ calls = 2

\* C6: the targets are scraped in list order, each one only after every
\* earlier one was scraped successfully; a URL is appended to the
\* checkpoint only after its own scrape succeeded; a target whose retries
\* were used up is not appended.
C6_OrderedAndCheckpointedAfterScrape ==
    /\ pc \in {"scrape", "record", "flush"} =>
          /\ scraped = SubSeq(targets, 1, Len(scraped))
          /\ Len(scraped) = IF pc = "flush" \/ (pc = "record" /\ ~rate_limit_hit)
                            THEN target_idx ELSE target_idx - 1
          /\ (hop.site = "scrape_products" /\ calls > 0 => hop.url = targets[target_idx])
    /\ \E k \in 0..Len(scraped) : Added = SubSeq(scraped, 1, k)
    /\ (hop.site = "scrape_products" /\ hop.outcome = "rate_limited") =>
          hop.url \notin Range(Added)

\* C6 witness: the first target is in the checkpoint, the second one has
\* used up its retries
C6_Witness ==
    /\ Len(Added) = 1
    /\ target_idx = 2
    /\ rate_limit_hit
    /\ hop.site = "scrape_products" /\ hop.outcome = "rate_limited"
    /\ pc = "done"

Open == {i \in 1..Len(resolved_urls) : resolved_urls[i] \notin Range(loaded.progress)}
OpenAt(k) == CHOOSE i \in Open : Cardinality({j \in Open : j < i}) = k - 1

\* C8 as claimed: in resume mode no URL of the loaded checkpoint is a
\* target, and every other resolved URL is a target, in resolved order.
C8_ResumeKeepsAllOthers ==
    (args.resume /\ pc \in {"scrape", "record", "flush"}) =>
        /\ Range(targets) \cap Range(loaded.progress) = {}
        /\ Len(targets) = Cardinality(Open)
        /\ \A k \in 1..Len(targets) : targets[k] = resolved_urls[OpenAt(k)]

\* C8 amended: in resume mode no URL of the loaded checkpoint is a target;
\* the targets are the other resolved URLs in resolved order, all of them
\* when no page cap is given and the first max(0, max_pages) of them
\* otherwise.
C8_ResumeSkipsCheckpointed ==
    (args.resume /\ pc \in {"scrape", "record", "flush", "finalize", "done"}) =>
        /\ Range(targets) \cap Range(loaded.progress) = {}
        /\ Len(targets) = IF IsNone(args.max_pages) THEN Cardinality(Open)
                          ELSE Min(Cardinality(Open), Max(0, args.max_pages[1]))
        /\ \A k \in 1..Len(targets) : targets[k] = resolved_urls[OpenAt(k)]

\* C8 witness: the first resolved URL is in the checkpoint and the second
\* one is the only target
C8_Witness ==
    /\ args.resume
    /\ pc = "scrape"
    /\ Len(resolved_urls) >= 2
    /\ resolved_urls[1] \in Range(loaded.progress)
    /\ targets = <<resolved_urls[2]>>

\* C9: no step of a run removes an entry from the checkpoint in memory or
\* from the checkpoint file, and the loaded entries stay in front.
C9_CheckpointMonotone ==
    [][/\ Range(progress) \subseteq Range(progress')
       /\ Range(load_progress(progress_file)) \subseteq Range(load_progress(progress_file'))
       /\ SubSeq(progress', 1, Len(progress)) = progress
       /\ SubSeq(progress', 1, Len(loaded.progress)) = loaded.progress]_vars

\* C9 witness: a checkpoint that was loaded with two entries has grown
C9_Witness ==
    /\ Len(loaded.progress) = 2
    /\ Len(progress) = 3
    /\ progress_file = FileOf(progress)

\* C10 as claimed: at the end of every run the snapshot file holds every
\* snapshot it held before the run and every snapshot collected in the run.
C10_SnapshotsMergedInEveryRun ==
    pc = "done" =>
        /\ Range(loaded.snapshots) \subseteq Range(snapshot_file.items)
        /\ Range(all_snapshots) \subseteq Range(snapshot_file.items)

\* C10 amended: at the end of every run with --append-snapshots the
\* snapshot file holds exactly the snapshots it held before the run and the
\* ones collected in the run, none of them twice.
C10_SnapshotsMergedWhenAppending ==
    (pc = "done" /\ args.append_snapshots) =>
        /\ snapshot_file.kind = "valid"
        /\ Range(snapshot_file.items) = Range(loaded.snapshots) \cup Range(all_snapshots)
        /\ \A i, j \in 1..Len(snapshot_file.items) :
              snapshot_file.items[i] = snapshot_file.items[j] => i = j
        /\ SubSeq(all_snapshots, 1, Len(loaded.snapshots)) = loaded.snapshots

\* C10 witness: an appending run that found a snapshot in the file and
\* collected another one
C10_Witness ==
    /\ pc = "done"
    /\ args.append_snapshots
    /\ Len(loaded.snapshots) = 1
    /\ Len(snapshot_file.items) = 2

\* the positions of main() in which resolve_urls has not returned yet
Resolving == {"stores", "seed", "pages"}
DiscoverySites == {"discover_category_urls", "discover_category_page_urls"}

\* C11: a discovery hop of resolve_urls that is rate limited ends the
\* resolution at once with an empty list, whatever was resolved before; once
\* resolve_urls has returned there is no discovery hop and the list does not
\* change; and a run whose resolved list is empty scrapes no target.
C11_RateLimitedDiscoveryAborts ==
    [][/\ (pc \in {"seed", "pages"} /\ hop'.outcome = "rate_limited") =>
             /\ hop'.site \in DiscoverySites
             /\ resolved_urls' = <<>>
             /\ pc' = "resolved"
       /\ pc \notin Resolving =>
             /\ pc' \notin Resolving
             /\ resolved_urls' = resolved_urls
             /\ hop'.site \notin DiscoverySites \/ hop' = hop
       /\ (pc' \notin Resolving /\ resolved_urls' = <<>>) =>
             /\ targets' = <<>>
             /\ scraped' = <<>>
             /\ calls' = 0
             /\ hop'.site # "scrape_products"]_vars

\* C11 witness: the first seed was resolved, the pagination hop of the
\* second seed was rate limited, and the run ended with nothing scraped
C11_Witness ==
    /\ hop.site = "discover_category_page_urls"
    /\ hop.outcome = "rate_limited"
    /\ seed_idx = 2
    /\ resolved_urls = <<>>
    /\ rate_limit_hit
    /\ pc = "done"
    /\ scraped = <<>>

NoDup(s) == \A i, j \in 1..Len(s) : s[i] = s[j] => i = j
\* the position of the first occurrence of x in s
FirstAt(s, x) == CHOOSE i \in 1..Len(s) : s[i] = x /\ \A j \in 1..(i - 1) : s[j] # x

\* C12: the resolved list never holds a URL twice. When the loop over the
\* seeds finishes a seed, the list keeps what it held, in place, and gains
\* exactly the URLs of that seed's expanded list that it did not hold, in
\* the order of their first occurrence in the expanded list; the expanded
\* list of a seed is the seed itself, its categories in link order, or the
\* pages of its categories, category after category.
C12_NoDuplicatesFirstDiscoveryOrder ==
    [][/\ NoDup(resolved_urls')
       /\ (seed_idx' = seed_idx + 1) =>
             LET e == expanded_urls'
                 n == Len(resolved_urls)
             IN  /\ SubSeq(resolved_urls', 1, n) = resolved_urls
                 /\ Range(resolved_urls') = Range(resolved_urls) \cup Range(e)
                 /\ \A i, j \in (n + 1)..Len(resolved_urls') :
                       i < j => FirstAt(e, resolved_urls'[i]) < FirstAt(e, resolved_urls'[j])
                 /\ (~args.discover_category_urls /\ ~args.crawl_category_pages) =>
                       e = <<args.url[seed_idx]>>
                 /\ args.crawl_category_pages => e = paginated_urls'
       /\ (pc = "pages" /\ hop'.outcome = "ok") =>
             LET m == Len(paginated_urls)
             IN  /\ SubSeq(paginated_urls', 1, m) = paginated_urls
                 /\ \A i \in (m + 1)..Len(paginated_urls') :
                       paginated_urls'[i].path = expanded_urls[cat_idx].path
                 /\ \A i, j \in (m + 1)..Len(paginated_urls') :
                       i < j => paginated_urls'[i].pg < paginated_urls'[j].pg]_vars

\* C12 witness: the second seed expanded to a URL the first seed had
\* already contributed, and the list holds it once
C12_Witness ==
    /\ pc = "resolved"
    /\ seed_idx = 3
    /\ args.discover_category_urls
    /\ expanded_urls = <<UrlB>>
    /\ resolved_urls = <<UrlB>>

\* C15: a response with status 429 is rate limited whatever its title and
\* body are, also when it is a challenge as well; at every fetch site a
\* rate-limited response gives the rate-limited outcome, without a pause for
\* manual verification and without the challenge failure.
C15_RateLimitBeforeChallenge ==
    /\ \A r \in Responses :
          (~r.timeout /\ r.status = 429) =>
              /\ _is_rate_limited(r.status, r.title, r.body)
              /\ \A h \in BOOLEAN, w \in {0, 60} : Gate(r, h, w) = "rate_limited"
    /\ hop.rate_limited =>
          /\ hop.outcome = "rate_limited"
          /\ ~hop.paused
          /\ \A i \in 1..Len(slept) : slept[i].kind # "manual"
          /\ error # "RuntimeError"

\* C15 witness: a headless run with a grace period fetched a target and got
\* a response that is both rate limited and a challenge
C15_Witness ==
    /\ hop.site = "scrape_products"
    /\ hop.rate_limited /\ hop.challenged
    /\ manual_wait > 0 /\ headless
    /\ pc = "record"
    /\ rate_limit_hit

\* a pass of scrape_urls_for_current_store is running
InPass == pc \in {"scrape", "record", "flush"}
\* what both readings of C21 share: the stores are at most --max-stores; in
\* the loop over the stores a target is fetched only under the store that
\* was selected last, the stores come in discovered order, and when the
\* loop goes to the next store or ends without a halt, every target was
\* scraped, once, in order.
StoreLoopInOrder ==
    /\ (args.scrape_all_stores /\ ~IsNone(args.max_stores)) =>
          Len(stores) <= Max(0, args.max_stores[1])
    /\ (multi_store /\ InPass) =>
          /\ store_idx \in 1..Len(stores)
          /\ current_store = stores[store_idx]
    /\ (multi_store /\ pc = "choose" /\ store_idx > 1) =>
          /\ ~rate_limit_hit
          /\ current_store = stores[store_idx - 1]
          /\ scraped = targets
    /\ (multi_store /\ pc \in {"finalize", "done"} /\ ~rate_limit_hit) =>
          /\ store_idx = Len(stores)
          /\ current_store = stores[store_idx]
          /\ scraped = targets
    /\ NoDup(targets)

Capped ==
    IF IsNone(args.max_pages) THEN resolved_urls
    ELSE Take(resolved_urls, Max(0, args.max_pages[1]))

\* C22: in a run with --scrape-all-stores, --resume given or not, no step
\* changes the checkpoint in memory or the checkpoint file, and the targets
\* of every pass are the resolved URLs up to --max-pages, the ones of the
\* loaded checkpoint included.
C22_CheckpointOffInMultiStore ==
    [][loaded.argv.scrape_all_stores =>
          /\ progress' = progress
          /\ progress_file' = progress_file
          /\ (pc' \in {"scrape", "record", "flush"}) => targets' = Capped']_vars

\* C22 witness: --resume and --scrape-all-stores were given, the checkpoint
\* that was loaded holds a resolved URL, and that URL has been scraped under
\* a selected store
C22_Witness ==
    /\ loaded.argv.resume
    /\ loaded.argv.scrape_all_stores
    /\ multi_store
    /\ pc = "done"
    /\ \E i \in 1..Len(scraped) : scraped[i] \in Range(loaded.progress)
    /\ progress = loaded.progress
    /\ progress_file.items = loaded.progress

\* the fetch of the current target was read and no product card matched
EmptyExtraction == hop.site = "scrape_products" /\ hop.outcome = "ok" /\ products = <<>>

AboutToFetch ==
    \/ pc = "stores" /\ (args.scrape_all_stores \/ args.choose_store)
    \/ pc = "seed" /\ args.discover_category_urls
    \/ pc \in {"pages", "choose", "scrape"}

\* the inter-request delay is among the waits made since the last navigation
Delayed ==
    \E i \in 1..Len(slept) :
        /\ slept[i].kind = "delay"
        /\ slept[i].lo >= Max(0, args.delay_seconds) * 1000
        /\ slept[i].hi <= (Max(0, args.delay_seconds) + Max(0, args.delay_jitter_seconds)) * 1000

\* C25 as claimed: whenever a navigation follows an earlier navigation of
\* the run (a discovery hop, a store selection, a scrape or a retry), the
\* inter-request delay, at least the base and at most the base plus the
\* jitter, was waited in between.
C25_DelayAfterEveryFetch ==
    (AboutToFetch /\ hop.site # "none") => Delayed

\* C27 as claimed: at every point of a run, every URL that the run has
\* written to the checkpoint file has the records extracted from it in the
\* output files: its products in the product file and its snapshots in the
\* snapshot file.
C27_CheckpointedIsPersisted ==
    \A y \in yield :
        y[1] \in Range(progress_file.items) =>
            /\ y[2] \in KeysIn(product_file)
            /\ \E i \in 1..Len(snapshot_file.items) :
                  /\ snapshot_file.items[i].product_key = y[2]
                  /\ snapshot_file.items[i].source_url = y[1]

\* C28 as claimed: a step that appends a target to the checkpoint follows a
\* fetch of that target that was classified normal: neither as a bot
\* challenge nor as a rate limit.
C28_CheckpointedFetchWasNormal ==
    [][progress' # progress =>
          /\ hop.site = "scrape_products"
          /\ hop.url = progress'[Len(progress')]
          /\ ~hop.challenged
          /\ ~hop.rate_limited]_vars

\* C29 as claimed: once the halt flag is set the run makes no navigation of
\* any kind: no scrape, no discovery hop, no store selection.
C29_NoNavigationAfterHalt ==
    rate_limit_hit => ~AboutToFetch

\* a discovery hop of the resolution was rate limited
DiscoveryRateLimited == hop.site \in DiscoverySites /\ hop.rate_limited

\* C30 as claimed: when the resolution has ended, the halt flag is set if
\* and only if a discovery hop was rate limited, and without a rate limit
\* the resolved list is not empty; once set, the flag stays set.
C30_HaltAtResolutionIffRateLimited ==
    [][/\ (pc = "resolved" /\ pc' # "resolved") =>
             /\ rate_limit_hit' <=> DiscoveryRateLimited
             /\ ~DiscoveryRateLimited => resolved_urls # <<>>
       /\ rate_limit_hit => rate_limit_hit']_vars

\* the snapshots the run has added to the ones it started with
AddedSnapshots ==
    LET n == IF loaded.argv.append_snapshots
             THEN Len(load_price_snapshots([kind |-> "valid", items |-> loaded.snapshots]))
             ELSE 0
    IN  SubSeq(all_snapshots, n + 1, Len(all_snapshots))

MaxPg == 3
\* largest number of pagination anchors on a page
MaxAnchors == 2

mainVars == <<args, pc, error, run, files, memory, storeVars, resolveVars,
              scrapeVars, clock, history>>

\* main() stands at the state record s (a record as StartState builds it)
MainAt(s) ==
    /\ args = s.args /\ pc = s.pc /\ error = s.error /\ run = s.run
    /\ progress_file = s.progress_file
    /\ product_file = s.product_file
    /\ snapshot_file = s.snapshot_file
    /\ progress = s.progress
    /\ all_products = s.all_products
    /\ all_snapshots = s.all_snapshots
    /\ rate_limit_hit = s.rate_limit_hit
    /\ clock = s.clock /\ yield = s.yield /\ loaded = s.loaded
    /\ stores = <<>> /\ store_idx = 0 /\ current_store = ""
    /\ resolved_urls = <<>> /\ seed_idx = 1 /\ expanded_urls = <<>>
    /\ cat_idx = 0 /\ paginated_urls = <<>>
    /\ targets = <<>> /\ target_idx = 0 /\ attempt = 0
    /\ products = <<>> /\ snapshots = <<>>
    /\ hop = NoHop /\ calls = 0 /\ scraped = <<>> /\ slept = <<>>

InitFunctions ==
    /\ MainAt(StartState(Defaults, MissingFile, MissingFile, MissingFile,
                         1, 1, {}, FALSE))
    /\ call = NoCall /\ result = NoResult /\ scroll = NoScroll

\* the sequences over S of length at most n
SeqsUpTo(S, n) == UNION {[1..k -> S] : k \in 0..n}

\* the query strings (without pg) of the start URLs: none, a parameter, a
\* parameter with a blank value, a value with an encoded space, a key that
\* occurs twice around another key
QueryChoices ==
    { <<>>,
      << <<"sort", "x">> >>,
      << <<"sort", "">> >>,
      << <<"f", "a%20b">> >>,
      << <<"k", "1">>, <<"j", "2">>, <<"k", "3">> >> }
StartUrls ==
    {UrlQ("/shop/a", n, q) : n \in {NoPg, BadPg} \cup 0..MaxPg, q \in QueryChoices}
\* the a[href*='pg='] anchors a page may carry, made absolute: same path
\* with a page number or a value that is no number, and another path
Anchors ==
    {Url("/shop/a", n) : n \in {BadPg} \cup 1..MaxPg}
        \cup {Url("/other", MaxPg + 1)}

\* lines 403-427 applied to a start URL and the anchors of its page
CallDiscoverCategoryPageUrls ==
    /\ call = NoCall
    /\ \E start_url \in StartUrls, hrefs \in SeqsUpTo(Anchors, MaxAnchors) :
         /\ call' = [fn |-> "discover_category_page_urls",
                     start_url |-> start_url, hrefs |-> hrefs]
         /\ result' = discover_category_page_urls(start_url, hrefs)
    /\ UNCHANGED <<mainVars, scroll>>

\* largest length of a snapshot list
MaxSnapshots == 2
\* largest length of a product list
MaxProducts == 3

\* a snapshot, and the six snapshots that differ from it in one field
BaseSnapshot ==
    [product_key |-> <<"m", "_", "_", "g">>, supermarket_name |-> "S1",
     price |-> "3.50", unit_price |-> "u", source_url |-> UrlA, scraped_at |-> 1]
SnapshotChoices ==
    { BaseSnapshot,
      [BaseSnapshot EXCEPT !.product_key = <<"o">>],
      [BaseSnapshot EXCEPT !.supermarket_name = "S2"],
      [BaseSnapshot EXCEPT !.price = "4.00"],
      [BaseSnapshot EXCEPT !.unit_price = "v"],
      [BaseSnapshot EXCEPT !.source_url = UrlB],
      [BaseSnapshot EXCEPT !.scraped_at = 2] }

\* lines 80-101 applied to two snapshot lists
CallMergeSnapshots ==
    /\ call = NoCall
    /\ \E existing, new \in SeqsUpTo(SnapshotChoices, MaxSnapshots) :
         /\ call' = [fn |-> "merge_snapshots", existing |-> existing, new |-> new]
         /\ result' = merge_snapshots(existing, new)
    /\ UNCHANGED <<mainVars, scroll>>

\* Product records: two spellings of one name with no image or one of two
\* images, and another name
ProductChoices ==
    {Product(n, <<"g">>, img) : n \in {<<"M">>, <<"m">>}, img \in {"", "X.png", "Y.png"}}
        \cup {Product(<<"o">>, <<"g">>, img) : img \in {"", "X.png"}}

\* lines 1045-1060 applied to a list of scraped products
CallDedupe ==
    /\ call = NoCall
    /\ \E ps \in SeqsUpTo(ProductChoices, MaxProducts) :
         /\ call' = [fn |-> "dedupe", all_products |-> ps]
         /\ result' = Dedupe(ps)
    /\ UNCHANGED <<mainVars, scroll>>

\* largest length of a name and of a packaging format
MaxText == 1
\* the characters of names and packaging formats
Chars == {"M", "m", "_", " "}
Texts == SeqsUpTo(Chars, MaxText)

\* lines 104-105 applied to two pairs of a name and a packaging format
CallProductKey ==
    /\ call = NoCall
    /\ \E n1, p1, n2, p2 \in Texts :
         /\ call' = [fn |-> "_product_key",
                     a |-> [name |-> n1, packaging_format |-> p1],
                     b |-> [name |-> n2, packaging_format |-> p2]]
         /\ result' = <<ProductKey(n1, p1), ProductKey(n2, p2)>>
    /\ UNCHANGED <<mainVars, scroll>>

\* load_progress applied to a checkpoint file of every kind
ProgressFileChoices ==
    {MissingFile, MalformedFile, ScalarFile, NotListFile(<<UrlA>>),
     OtherShapeFile(<<UrlA, UrlB>>)}
        \cup {FileOf(urls) : urls \in SeqsUpTo({UrlA, UrlB, UrlC}, 2)}
CallLoadProgress ==
    /\ call = NoCall
    /\ \E file \in ProgressFileChoices :
         /\ call' = [fn |-> "load_progress", file |-> file]
         /\ result' = load_progress(file)
    /\ UNCHANGED <<mainVars, scroll>>

\* load_price_snapshots applied to a snapshot file of every kind, its list
\* holding up to MaxEntries entries: snapshots, a string, an object that
\* lacks a field, an object with a field too many
MaxEntries == 3
NotAnObject == [json |-> "string"]
LacksField == [product_key |-> <<"o">>, price |-> "1"]
ExtraField ==
    [product_key |-> <<"o">>, supermarket_name |-> "S1", price |-> "1",
     unit_price |-> "u", source_url |-> UrlA, scraped_at |-> 1, name |-> "o"]
BadEntries == {NotAnObject, LacksField, ExtraField}
GoodEntries == {BaseSnapshot, [BaseSnapshot EXCEPT !.supermarket_name = "S2"]}
SnapshotFileChoices ==
    {MissingFile, MalformedFile, ScalarFile, OtherShapeFile(<<BaseSnapshot>>)}
        \cup {FileOf(entries) :
                 entries \in SeqsUpTo(GoodEntries \cup BadEntries, MaxEntries)}
CallLoadPriceSnapshots ==
    /\ call = NoCall
    /\ \E file \in SnapshotFileChoices :
         /\ call' = [fn |-> "load_price_snapshots", file |-> file]
         /\ result' = load_price_snapshots(file)
    /\ UNCHANGED <<mainVars, scroll>>

\* largest length of the text of a price element
MaxPriceLen == 3
\* the characters of price texts
PriceChars == {"1", "2", "9", ".", " "}
\* lines 568-569: the dollars and cents texts are stripped when read
PriceTexts == {Strip(t) : t \in SeqsUpTo(PriceChars, MaxPriceLen)}

\* lines 568-576 applied to the dollars text and the cents text of a card
CallComposePrice ==
    /\ call = NoCall
    /\ \E price_dollars, price_cents \in PriceTexts :
         /\ call' = [fn |-> "price", price_dollars |-> price_dollars,
                     price_cents |-> price_cents]
         /\ result' = ComposePrice(price_dollars, price_cents)
    /\ UNCHANGED <<mainVars, scroll>>

NextFunctions ==
    \/ CallDiscoverCategoryPageUrls
    \/ CallMergeSnapshots
    \/ CallDedupe
    \/ CallProductKey
    \/ CallLoadProgress
    \/ CallLoadPriceSnapshots
    \/ CallComposePrice

SpecFunctions == InitFunctions /\ [][NextFunctions]_vars

\* the page numbers that same-path anchors expose
Markers(start_url, hrefs) ==
    {hrefs[i].pg : i \in {j \in 1..Len(hrefs) :
                            hrefs[j].path = start_url.path /\ hrefs[j].pg >= 0}}
\* the start URL's own page number, 1 when it has no pg parameter
OwnPage(start_url) == IF start_url.pg = NoPg THEN 1 ELSE start_url.pg
Paginating == call.fn = "discover_category_page_urls"

Counted(start_url, hrefs) ==
    Markers(start_url, hrefs)
        \cup (IF OwnPage(start_url) >= 0 THEN {OwnPage(start_url)} ELSE {})

\* C14: with N the largest of the page numbers of the same-path anchors and
\* of the start URL itself (1 when it has no pg), the result has N URLs and
\* the n-th one is the start URL with nothing but its page parameter
\* changed, to n; other paths and values that are no numbers do not count.
C14_PagesOneToN ==
    (Paginating /\ Counted(call.start_url, call.hrefs) # {}) =>
        LET N == SetMax(Counted(call.start_url, call.hrefs))
        IN  /\ Len(result) = N
            /\ \A n \in 1..Len(result) :
                  result[n] = [call.start_url EXCEPT !.pg = n]

Merging == call.fn = "merge_snapshots"

\* C16: merging the second list into the result of a merge once more gives
\* the same list.
C16_MergeIdempotent ==
    Merging => merge_snapshots(result, call.new) = result

\* C16 witness: the second list holds a snapshot twice and shares it with
\* the first list
C16_Witness ==
    /\ Merging
    /\ Len(call.new) = 2
    /\ call.new[1] = call.new[2]
    /\ call.existing = <<call.new[1]>>
    /\ result = call.existing

\* C17: the merged list holds no snapshot twice, holds every snapshot of
\* either list (two snapshots that differ in one of the six fields are two
\* snapshots), and keeps the snapshots in the order of their first
\* occurrence in existing followed by new.
C17_MergeKeepsFirstOccurrences ==
    Merging =>
        LET all == call.existing \o call.new
        IN  /\ NoDup(result)
            /\ Range(result) = Range(all)
            /\ \A i, j \in 1..Len(result) :
                  i < j => FirstAt(all, result[i]) < FirstAt(all, result[j])

\* C17 witness: two snapshots that differ in the store name alone, the
\* first of them given twice: both are kept, once each
C17_Witness ==
    /\ Merging
    /\ call.existing = <<BaseSnapshot, [BaseSnapshot EXCEPT !.supermarket_name = "S2"]>>
    /\ call.new = <<BaseSnapshot>>
    /\ result = call.existing

Deduping == call.fn = "dedupe"
\* the observations of a key, in the order of arrival
Observations(ps, key) == SelectSeq(ps, LAMBDA p : p.product_key = key)
\* the first image that is not blank, blank when there is none
RECURSIVE FirstImage(_)
FirstImage(obs) ==
    IF obs = <<>> THEN ""
    ELSE IF Head(obs).image # "" THEN Head(obs).image
    ELSE FirstImage(Tail(obs))
KeysOf(ps) == [i \in 1..Len(ps) |-> ps[i].product_key]

Keying == call.fn = "_product_key"
Normal(text) == LowerStr(Strip(text))

\* C19: two pairs of a name and a packaging format get the same product_key
\* exactly when their names are equal and their packaging formats are
\* equal, both after trimming and lower-casing.
C19_KeyIdentifiesPair ==
    Keying =>
        ((result[1] = result[2])
            <=> (/\ Normal(call.a.name) = Normal(call.b.name)
                 /\ Normal(call.a.packaging_format) = Normal(call.b.packaging_format)))

Pointless(cents) == SelectSeq(cents, LAMBDA c : c # ".")

\* C26 as claimed: when the dollars text and the cents text are both
\* non-empty the price is the dollars, a point and the cents without their
\* points; when the cents text is empty the price is the dollars alone.
C26_PriceFromNonEmptyTexts ==
    call.fn = "price" =>
        /\ (call.price_dollars # <<>> /\ call.price_cents # <<>>) =>
              result = call.price_dollars \o <<".">> \o Pointless(call.price_cents)
        /\ call.price_cents = <<>> => result = call.price_dollars

\* C26 amended: the cents are cleaned by removing their points and then the
\* white space around what is left; the price is the dollars, a point and
\* the cleaned cents when the dollars and the cleaned cents are both
\* non-empty, and the dollars alone (empty or not) otherwise. "12" and "99"
\* give "12.99", "12" and "" give "12".
C26_PriceFromCleanedCents ==
    call.fn = "price" =>
        LET cleaned == Strip(Pointless(call.price_cents))
        IN  /\ (call.price_dollars # <<>> /\ cleaned # <<>>) =>
                  result = call.price_dollars \o <<".">> \o cleaned
            /\ (call.price_dollars = <<>> \/ cleaned = <<>>) =>
                  result = call.price_dollars
            /\ (call.price_dollars = <<"1", "2">> /\ call.price_cents = <<"9", "9">>) =>
                  result = <<"1", "2", ".", "9", "9">>
            /\ (call.price_dollars = <<"1", "2">> /\ call.price_cents = <<>>) =>
                  result = <<"1", "2">>

\* C26 witness: the cents text ".99" was joined to the dollars text "12"
C26_Witness ==
    /\ call.fn = "price"
    /\ call.price_dollars = <<"1", "2">>
    /\ call.price_cents = <<".", "9", "9">>
    /\ result = <<"1", "2", ".", "9", "9">>

\* ------------------------------- the scroll loop of discover_store_names
\* range(60): the most iterations of the scroll loop
ScrollCap == 60
\* stagnation >= 6: the iterations without change that end the loop
StagnationLimit == 6
\* largest number of role=option elements that are rendered at once
MaxVisible == 2

\* The store names are numbered in alphabetical order; Text(k) is the k-th
\* name the virtualized list brings up, which is not the alphabetical order.
Text(k) == IF k % 2 = 1 THEN k + 1 ELSE k - 1

\* " ".join(text.strip().split()) of an option text given as its words and
\* the white space around them (a name is its number, Blank is a stretch of
\* white space): the name, Blank for a text without a word
Blank == 0
Normalize(text) ==
    LET words == SelectSeq(text, LAMBDA w : w # Blank)
    IN  IF words = <<>> THEN Blank ELSE words[1]

\* sorted(seen)
RECURSIVE Sorted(_)
Sorted(S) ==
    IF S = {} THEN <<>>
    ELSE LET m == CHOOSE x \in S : \A y \in S : x <= y
         IN  <<m>> \o Sorted(S \ {m})

\* the option texts the list may render once k names have come up: white
\* space alone, the latest name with white space around it, the next name
\* with and without white space
OptionTexts(k) ==
    { <<Blank>>, <<Blank, Text(Max(k, 1)), Blank>>, <<Text(k + 1)>>,
      <<Blank, Text(k + 1)>> }

\* lines 321-327: the locals before the loop (quiet, shown: history of the
\* iterations without change and of the names rendered so far)
InitStores ==
    /\ MainAt(StartState([Defaults EXCEPT !.scrape_all_stores = TRUE],
                         MissingFile, MissingFile, MissingFile, 1, 1, {}, FALSE))
    /\ call = NoCall /\ result = NoResult
    /\ scroll = [pc |-> "loop", i |-> 0, count |-> 0, seen |-> {},
                 stagnation |-> 0, last_count |-> 0, last_seen_size |-> 0,
                 stores |-> <<>>, quiet |-> 0, shown |-> {}]

\* mutant of Stagnates: the number of names is not compared
StagnatesOnCount(count, last_count, seen_size, last_seen_size) ==
    count = last_count

\* line 340: the iteration changed neither the option count nor the names
Stagnates(count, last_count, seen_size, last_seen_size) ==
    count = last_count /\ seen_size = last_seen_size

\* lines 328-355: one iteration of the scroll loop, and the return when it
\* was the last one
ScrollIteration ==
    /\ scroll.pc = "loop"
    /\ \E options \in SeqsUpTo(OptionTexts(Cardinality(scroll.seen)), MaxVisible) :
         LET count == Len(options)
             normalized == {Normalize(options[index]) : index \in 1..count}
             seen == scroll.seen \cup (normalized \ {Blank})
             stagnation ==
                 IF Stagnates(count, scroll.last_count,
                              Cardinality(seen), scroll.last_seen_size)
                 THEN scroll.stagnation + 1 ELSE 0
             last == stagnation >= StagnationLimit \/ scroll.i + 1 = ScrollCap
             fresh == {w \in UNION {Range(options[index]) : index \in 1..count} :
                          w # Blank /\ w \notin scroll.shown}
         IN  scroll' = [pc |-> IF last THEN "returned" ELSE "loop",
                        i |-> scroll.i + 1,
                        count |-> count,
                        seen |-> seen,
                        stagnation |-> stagnation,
                        last_count |-> count,
                        last_seen_size |-> Cardinality(seen),
                        stores |-> IF last THEN Sorted(seen) ELSE <<>>,
                        quiet |-> IF count = scroll.count /\ fresh = {}
                                  THEN scroll.quiet + 1 ELSE 0,
                        shown |-> scroll.shown \cup fresh]
    /\ UNCHANGED <<mainVars, call, result>>

NextStores ==
    \/ ScrollIteration

SpecStores == InitStores /\ [][NextStores]_vars

\* C20: the scroll loop runs at most 60 iterations; it goes on exactly while
\* fewer than 60 iterations were made and the latest iterations that neither
\* changed the option count nor brought up a new name are fewer than 6; what
\* it returns is every name that was rendered, in ascending order, each
\* once.
C20_ScrollLoopTerminates ==
    /\ scroll.i <= ScrollCap
    /\ scroll.pc = "loop" => (scroll.i < ScrollCap /\ scroll.quiet < StagnationLimit)
    /\ scroll.pc = "returned" =>
          /\ scroll.quiet = StagnationLimit \/ scroll.i = ScrollCap
          /\ Range(scroll.stores) = scroll.shown
          /\ \A j \in 1..(Len(scroll.stores) - 1) :
                scroll.stores[j] < scroll.stores[j + 1]

\* C20 witness: the list brought up a new name in every iteration and the
\* loop returned the 60 names after 60 iterations
C20_Witness ==
    /\ scroll.pc = "returned"
    /\ scroll.i = ScrollCap
    /\ scroll.quiet = 0
    /\ Len(scroll.stores) = ScrollCap

====
